---- MODULE Spec2Model ----
(***************************************************************************)
(* Model of the model_to_image software renderer (src/src/lib.rs).         *)
(*                                                                         *)
(* State: the configuration builder (ModelToImageBuilder), the renderer    *)
(* built from it (ModelToImage, with its image buffer), and the depth      *)
(* buffer of the last render() call.                                       *)
(*                                                                         *)
(* Numbers.  An f32 is modelled as an exact extended rational: a finite    *)
(* reduced fraction, +infinity, -infinity or NaN, with the IEEE rules for  *)
(* division by zero, 0*infinity and infinity-infinity, Rust's NaN-ignoring *)
(* f32::min/f32::max and Rust's saturating `as i32`.  Rounding of finite   *)
(* results to 24 bits of mantissa is not modelled.                         *)
(***************************************************************************)
EXTENDS Integers, Sequences, FiniteSets, TLC

VARIABLES
    pc,             \* where the program is: "config", "built", "build_err", ...
    builder,        \* the ModelToImageBuilder
    last_with_size, \* history: the argument of the last with_size call, if any
    importer_calls, \* history: how often Scene::from_file has been called
    this,           \* the ModelToImage that build() returned, if any
    z_buffer,       \* the depth buffer of the last render() call, at its end
    renders,        \* history: how often render() has returned
    call,           \* a direct call of a rasterizer function: its arguments
    ret             \* ... and what it returned

vars == <<pc, builder, last_with_size, importer_calls, this, z_buffer, renders, call, ret>>

(***************************************************************************)
(* Bounds of the model.                                                    *)
(***************************************************************************)
\* render() is explored only on images of at most MaxRenderDim x MaxRenderDim
MaxRenderDim == 12
\* number of render() calls explored on one renderer
MaxRenders == 2
\* barycentric is called directly on points with coordinates in 0..GridMax
GridMax == 2

(***************************************************************************)
(* f32 as an extended rational.                                            *)
(***************************************************************************)
I32_MAX == 2147483647
I32_MIN == (-I32_MAX) - 1

Abs(x) == IF x < 0 THEN -x ELSE x

RECURSIVE GCD(_, _)
GCD(a, b) == IF b = 0 THEN a ELSE GCD(b, a % b)

\* the finite value n/d (d # 0), as a reduced fraction with positive denominator
Reduced(n, d, g) ==
    IF d < 0 THEN [k |-> "fin", n |-> (-n) \div g, d |-> (-d) \div g]
    ELSE [k |-> "fin", n |-> n \div g, d |-> d \div g]
Fin(n, d) == Reduced(n, d, GCD(Abs(n), Abs(d)))

Int2F(i) == [k |-> "fin", n |-> i, d |-> 1]
F_INFINITY == [k |-> "inf", n |-> 1, d |-> 0]
F_NEG_INFINITY == [k |-> "inf", n |-> -1, d |-> 0]
F_NAN == [k |-> "nan", n |-> 0, d |-> 0]

IsFin(a) == a.k = "fin"
IsNaN(a) == a.k = "nan"
Sgn(i) == IF i > 0 THEN 1 ELSE IF i < 0 THEN -1 ELSE 0
Signed_Inf(s) == IF s > 0 THEN F_INFINITY ELSE F_NEG_INFINITY

FNeg(a) == [a EXCEPT !.n = -a.n]

FAdd(a, b) ==
    IF IsNaN(a) \/ IsNaN(b) THEN F_NAN
    ELSE IF IsFin(a) /\ IsFin(b) THEN Fin(a.n * b.d + b.n * a.d, a.d * b.d)
    ELSE IF IsFin(a) THEN b
    ELSE IF IsFin(b) THEN a
    ELSE IF a.n = b.n THEN a ELSE F_NAN

FSub(a, b) == FAdd(a, FNeg(b))

FMul(a, b) ==
    IF IsNaN(a) \/ IsNaN(b) THEN F_NAN
    ELSE IF IsFin(a) /\ IsFin(b) THEN Fin(a.n * b.n, a.d * b.d)
    ELSE IF a.n = 0 \/ b.n = 0 THEN F_NAN
    ELSE Signed_Inf(Sgn(a.n) * Sgn(b.n))

FDiv(a, b) ==
    IF IsNaN(a) \/ IsNaN(b) THEN F_NAN
    ELSE IF IsFin(a) /\ IsFin(b) THEN
        IF b.n # 0 THEN Fin(a.n * b.d, a.d * b.n)
        ELSE IF a.n = 0 THEN F_NAN
        ELSE Signed_Inf(Sgn(a.n))
    ELSE IF IsFin(a) THEN Int2F(0)
    ELSE IF IsFin(b) THEN Signed_Inf(Sgn(a.n) * (IF b.n < 0 THEN -1 ELSE 1))
    ELSE F_NAN

\* a < b; false when either is NaN
FLt(a, b) ==
    /\ ~IsNaN(a)
    /\ ~IsNaN(b)
    /\ IF IsFin(a) /\ IsFin(b) THEN a.n * b.d < b.n * a.d
       ELSE IF IsFin(a) THEN b.n > 0
       ELSE IF IsFin(b) THEN a.n < 0
       ELSE a.n < b.n

FGt(a, b) == FLt(b, a)
FGe(a, b) == ~IsNaN(a) /\ ~IsNaN(b) /\ ~FLt(a, b)

\* f32::min and f32::max: the other operand when one is NaN
FMin(a, b) == IF IsNaN(a) THEN b ELSE IF IsNaN(b) THEN a ELSE IF FLt(b, a) THEN b ELSE a
FMax(a, b) == IF IsNaN(a) THEN b ELSE IF IsNaN(b) THEN a ELSE IF FLt(a, b) THEN b ELSE a

\* `as i32`: truncation toward zero, saturating, NaN to 0
F2I32(a) ==
    IF IsNaN(a) THEN 0
    ELSE IF ~IsFin(a) THEN (IF a.n > 0 THEN I32_MAX ELSE I32_MIN)
    ELSE IF a.n >= 0 THEN a.n \div a.d
    ELSE -((-a.n) \div a.d)

(***************************************************************************)
(* Colours (utils.rs) and images.                                          *)
(***************************************************************************)
Rgb(r, g, b) == <<r, g, b>>

\* Colour::from((211, 211, 211)) turned into [u8; 3]
BkgColour == Rgb(211, 211, 211)

\* An RgbImage is a width x height row-major buffer.  It is kept as the
\* colour `fill` and the pixels `px` that differ from it (index -> colour,
\* index = y * width + x + 1); PixelAt reads it as the full buffer.
EmptyPx == [i \in {} |-> Rgb(0, 0, 0)]

\* the buffer whose pixel i is f[i] on dom and `fill` elsewhere
Image(width, height, fill, dom, f) ==
    [width |-> width, height |-> height, fill |-> fill,
     px |-> [i \in {j \in dom : f[j] # fill} |-> f[i]]]

PixelAt(img, i) == IF i \in DOMAIN img.px THEN img.px[i] ELSE img.fill

\* RgbImage::new(width, height): a zeroed buffer
RgbImage_new(width, height) == Image(width, height, Rgb(0, 0, 0), {}, EmptyPx)

get_pixel(img, x, y) == PixelAt(img, y * img.width + x + 1)

\* image::imageops::flip_vertical_in_place
flip_vertical(img) ==
    LET flipped(i) == (img.height - 1 - ((i - 1) \div img.width)) * img.width
                          + ((i - 1) % img.width) + 1
        dom == {flipped(i) : i \in DOMAIN img.px}
    IN  Image(img.width, img.height, img.fill, dom, [i \in dom |-> img.px[flipped(i)]])

\* gen_bkg: every pixel becomes the background colour
gen_bkg(img) == Image(img.width, img.height, BkgColour, {}, EmptyPx)

(***************************************************************************)
(* Inputs: what the mesh importer can return, and the builder arguments.   *)
(* A vertex is <<x, y, z>>, a face a sequence of 0-based vertex indices,   *)
(* an Option is a sequence of length 0 (None) or 1 (Some).                 *)
(***************************************************************************)
Some(v) == <<v>>
None == <<>>
IsSome(o) == Len(o) = 1
Unwrap(o) == o[1]

\* a decoded 2 x 2 diffuse texture
Checker ==
    Image(2, 2, Rgb(0, 0, 0), 1..4,
          <<Rgb(200, 0, 0), Rgb(0, 200, 0), Rgb(0, 0, 200), Rgb(100, 100, 50)>>)

\* the materials table of every imported scene: no diffuse texture, an
\* embedded texture that decodes, embedded bytes that do not decode, and a
\* diffuse texture that is not embedded bytes
Materials ==
    << [diffuse |-> FALSE, content |-> "Bytes", decoded |-> None],
       [diffuse |-> TRUE, content |-> "Bytes", decoded |-> Some(Checker)],
       [diffuse |-> TRUE, content |-> "Bytes", decoded |-> None],
       [diffuse |-> TRUE, content |-> "Texel", decoded |-> None] >>

Mesh(vertices, faces, texture_coords, material_index) ==
    [vertices |-> vertices, faces |-> faces,
     texture_coords |-> texture_coords, material_index |-> material_index]

\* the unit triangle P0=(0,0,0), P1=(1,0,0), P2=(0,1,0), untextured
UnitTri ==
    Mesh(<< <<0, 0, 0>>, <<1, 0, 0>>, <<0, 1, 0>> >>, << <<0, 1, 2>> >>, <<>>, 0)

\* a large triangle in the plane z = 1, untextured
LowTri ==
    Mesh(<< <<0, 0, 1>>, <<2, 0, 1>>, <<0, 2, 1>> >>, << <<0, 1, 2>> >>, <<>>, 0)

\* a smaller triangle in the plane z = 2, textured
HighTri ==
    Mesh(<< <<0, 0, 2>>, <<1, 0, 2>>, <<0, 1, 2>> >>, << <<0, 1, 2>> >>,
         << Some(<< <<0, 0>>, <<1, 0>>, <<0, 1>> >>) >>, 1)

\* the same triangle with a material whose embedded bytes do not decode
HighTriBadTexture == [HighTri EXCEPT !.material_index = 2]

\* one mesh with a flat face (z = 1) and a tilted face crossing it, and a
\* line primitive that the triangle filter drops
TwoFaceVertices ==
    << <<0, 0, 1>>, <<2, 0, 1>>, <<0, 2, 1>>, <<0, 0, 0>>, <<2, 0, 3>>, <<0, 2, 1>> >>
FlatThenTilted ==
    Mesh(TwoFaceVertices, << <<0, 1, 2>>, <<0, 1>>, <<3, 4, 5>> >>, <<>>, 3)
TiltedThenFlat ==
    Mesh(TwoFaceVertices, << <<3, 4, 5>>, <<0, 1, 2>> >>, <<>>, 3)

\* three vertices on a line in x/y, not on a line in space
LineMesh ==
    Mesh(<< <<0, 0, 0>>, <<1, 1, 0>>, <<2, 2, 1>> >>, << <<0, 1, 2>> >>, <<>>, 0)

\* a model of zero width: every vertex has x = 0
ZeroWidthMesh ==
    Mesh(<< <<0, 0, 0>>, <<0, 2, 0>>, <<0, 0, 1>> >>, << <<0, 1, 2>> >>, <<>>, 0)

\* a model of zero width and height: every vertex has x = 1 and y = 1
PointMesh ==
    Mesh(<< <<1, 1, 0>>, <<1, 1, 1>>, <<1, 1, 2>> >>, << <<0, 1, 2>> >>, <<>>, 0)

Scene(meshes) == [meshes |-> meshes, materials |-> Materials]

Scenes ==
    { Scene(<<>>),
      Scene(<<UnitTri>>),
      Scene(<<LowTri, HighTri>>),
      Scene(<<HighTri, LowTri>>),
      Scene(<<HighTriBadTexture, LowTri>>),
      Scene(<<FlatThenTilted>>),
      Scene(<<TiltedThenFlat>>),
      Scene(<<LineMesh>>),
      Scene(<<ZeroWidthMesh>>),
      Scene(<<PointMesh>>) }

\* A path given to the builder, with what the file system and the importer
\* make of it: whether it exists, whether it is valid UTF-8 (to_str() is
\* Some), and whether Scene::from_file parses it and into which scene.
Path(exists, utf8, parsed) == [exists |-> exists, utf8 |-> utf8, parsed |-> parsed]

Paths ==
    {Path(TRUE, TRUE, Some(s)) : s \in Scenes}
        \cup {Path(TRUE, TRUE, None), Path(FALSE, TRUE, None)}
        \cup {Path(TRUE, FALSE, None), Path(FALSE, FALSE, None)}

\* arguments of with_size (u32 pairs)
SizeArgs == {<<0, 0>>, <<12, 5>>, <<10, 12>>, <<9, 11>>}

\* arguments of with_light_direction
LightArgs == {<<0, 0, -1>>, <<0, 0, 1>>, <<-1, 1, 0>>, <<0, 1, -1>>}

\* arguments of with_margin (f32)
MarginArgs == {Fin(-1, 10), Fin(0, 1), Fin(1, 10), Fin(3, 10), Fin(1, 2)}

(***************************************************************************)
(* ModelToImageBuilder.                                                    *)
(***************************************************************************)
Max(a, b) == IF a >= b THEN a ELSE b
Min(a, b) == IF a <= b THEN a ELSE b

ModelToImageBuilder_new(model_path) ==
    [model_path |-> model_path,
     size |-> <<256, 256>>,
     light_dir |-> <<0, 0, -1>>,
     margin |-> Fin(1, 10)]

\* Faulty variant, for comparison: the size is taken as given
with_size_Unclamped(self, size) == [self EXCEPT !.size = <<size[1], size[2]>>]

with_size(self, size) ==
    [self EXCEPT !.size = <<Max(size[1], 10), Max(size[2], 10)>>]

with_light_direction(self, light_dir) ==
    [self EXCEPT !.light_dir = light_dir]

with_margin(self, margin) ==
    [self EXCEPT !.margin = margin]

\* the texture of one material slot, as ModelToImage::new resolves it
LoadTexture(material) ==
    IF material.diffuse /\ material.content = "Bytes" THEN material.decoded ELSE None

ModelToImage_new(b, scene) ==
    [config |-> b,
     size |-> [width |-> b.size[1], height |-> b.size[2]],
     img_buf |-> RgbImage_new(b.size[1], b.size[2]),
     scene |-> scene,
     light_dir |-> b.light_dir,
     textures |-> [i \in 1..Len(scene.materials) |-> LoadTexture(scene.materials[i])],
     margin |-> b.margin]

\* build(): "panic" when to_str().unwrap() meets a path that is not UTF-8,
\* "err" when the path does not exist or the importer fails, else "ok".
\* `imported` tells whether Scene::from_file was called.
build(b) ==
    LET p == b.model_path IN
    IF ~p.exists THEN
        IF p.utf8 THEN [result |-> "err", imported |-> FALSE, value |-> None]
        ELSE [result |-> "panic", imported |-> FALSE, value |-> None]
    ELSE IF ~p.utf8 THEN [result |-> "panic", imported |-> FALSE, value |-> None]
    ELSE IF ~IsSome(p.parsed) THEN [result |-> "err", imported |-> TRUE, value |-> None]
    ELSE [result |-> "ok", imported |-> TRUE,
          value |-> Some(ModelToImage_new(b, Unwrap(p.parsed)))]

(***************************************************************************)
(* The rasterizer: barycentric and draw_triangle.                          *)
(* Projected points are integer-valued f32s (they come from `as i32`), so  *)
(* the products and differences of barycentric are computed on integers    *)
(* and only its quotients are fractions.                                   *)
(***************************************************************************)
\* Faulty variant, for comparison: w1 and w2 exchanged
Weights_Swapped(u) ==
    IF FGt(Int2F(Abs(u[3])), Fin(1, 100)) THEN
        Some(<< FSub(Int2F(1), FDiv(Int2F(u[1] + u[2]), Int2F(u[3]))),
                FDiv(Int2F(u[1]), Int2F(u[3])),
                FDiv(Int2F(u[2]), Int2F(u[3])) >>)
    ELSE None

\* Faulty variant, for comparison: a degenerate triangle answers with the weights of its first corner
Weights_DegenerateDefault(u) ==
    IF FGt(Int2F(Abs(u[3])), Fin(1, 100)) THEN
        Some(<< FSub(Int2F(1), FDiv(Int2F(u[1] + u[2]), Int2F(u[3]))),
                FDiv(Int2F(u[2]), Int2F(u[3])),
                FDiv(Int2F(u[1]), Int2F(u[3])) >>)
    ELSE Some(<<Int2F(1), Int2F(0), Int2F(0)>>)

\* the weights barycentric derives from the cross product u
Weights(u) ==
    IF FGt(Int2F(Abs(u[3])), Fin(1, 100)) THEN
        Some(<< FSub(Int2F(1), FDiv(Int2F(u[1] + u[2]), Int2F(u[3]))),
                FDiv(Int2F(u[2]), Int2F(u[3])),
                FDiv(Int2F(u[1]), Int2F(u[3])) >>)
    ELSE None

\* the cross product of s0 and s1
CrossU(s0, s1) ==
    << s0[2] * s1[3] - s0[3] * s1[2],
       s0[3] * s1[1] - s0[1] * s1[3],
       s0[1] * s1[2] - s0[2] * s1[1] >>

\* barycentric(a, b, c, p): None, or Some(<<w0, w1, w2>>)
barycentric(a, b, c, p) ==
    Weights(CrossU(<<c[1] - a[1], b[1] - a[1], a[1] - p[1]>>,
                   <<c[2] - a[2], b[2] - a[2], a[2] - p[2]>>))

\* A light intensity: the dot product of two normalized vectors, kept as
\* dot / sqrt(nn * ll) with `dot` the dot product of the raw vectors and nn,
\* ll their squared lengths.  It is NaN when either vector is zero.
Intensity(dot, nn, ll) == [dot |-> dot, nn |-> nn, ll |-> ll]

\* intensity > 0.0
IntensityPositive(i) == i.nn > 0 /\ i.ll > 0 /\ i.dot > 0

\* ((c as f32 * intensity).min(255.0)) as u8, for c in 0..255
ScaleU8(c, i) ==
    IF ~IntensityPositive(i) THEN 0
    ELSE LET t == c * c * i.dot * i.dot
             k == i.nn * i.ll
         IN  CHOOSE r \in 0..255 :
                 /\ r * r * k <= t
                 /\ r = 255 \/ (r + 1) * (r + 1) * k > t

\* x.fract().abs() for a finite x
FractAbs(x) == Fin(Abs(x.n) % x.d, x.d)

\* texel column or row: ((f * extent as f32) as u32).min(extent - 1)
TexelIndex(f, extent) == Min(Max(F2I32(FMul(f, Int2F(extent))), 0), extent - 1)

\* w0*a0 + w1*a1 + w2*a2 for integer-valued a0, a1, a2
Interpolate(a0, a1, a2, w) ==
    FAdd(FAdd(FMul(Int2F(a0), w[1]), FMul(Int2F(a1), w[2])), FMul(Int2F(a2), w[3]))

\* texture.get_pixel(tex_x, tex_y) for the interpolated coordinates u, v
SampleTexture(tex, u, v) ==
    get_pixel(tex, TexelIndex(FractAbs(u), tex.width),
                   TexelIndex(FractAbs(FSub(Int2F(1), v)), tex.height))

\* the sampled texel modulated by the light
ShadeTexel(rgb, light_intensity) ==
    Rgb(ScaleU8(rgb[1], light_intensity),
        ScaleU8(rgb[2], light_intensity),
        ScaleU8(rgb[3], light_intensity))

\* the flat grey of an untextured face
Grey(color_value) == Rgb(color_value, color_value, color_value)

TexturedColour(tex, tc, light_intensity, w) ==
    ShadeTexel(SampleTexture(tex, Interpolate(tc[1][1], tc[2][1], tc[3][1], w),
                                  Interpolate(tc[1][2], tc[2][2], tc[3][2], w)),
               light_intensity)

\* the colour draw_triangle gives a pixel with barycentric weights w
FragmentColour(texture, tex_coords, light_intensity, w) ==
    IF IsSome(texture) /\ IsSome(tex_coords)
    THEN TexturedColour(Unwrap(texture), Unwrap(tex_coords), light_intensity, w)
    ELSE Grey(ScaleU8(255, light_intensity))

\* Faulty variant, for comparison: no depth test, the last face drawn wins
DepthTest_Painter(z, stored) == TRUE

\* the depth test of draw_triangle
DepthTest(z, stored) == FGt(z, stored)

\* the inside test of draw_triangle
Inside(w) == FGe(w[1], Int2F(0)) /\ FGe(w[2], Int2F(0)) /\ FGe(w[3], Int2F(0))

InsideOnly(bc) == IF IsSome(bc) /\ Inside(Unwrap(bc)) THEN bc ELSE None

\* Some(w) when pixel (x, y) passes the inside test of the triangle pts
Covers(pts, x, y) ==
    InsideOnly(barycentric(<<pts[1][1], pts[1][2]>>, <<pts[2][1], pts[2][2]>>,
                           <<pts[3][1], pts[3][2]>>, <<x, y>>))

\* the clipped bounding box of pts: the pixels the two loops visit
BBox(size, pts) ==
    LET min_x == Max(Min(Min(pts[1][1], pts[2][1]), pts[3][1]), 0)
        max_x == Min(Max(Max(pts[1][1], pts[2][1]), pts[3][1]), size.width - 1)
        min_y == Max(Min(Min(pts[1][2], pts[2][2]), pts[3][2]), 0)
        max_y == Min(Max(Max(pts[1][2], pts[2][2]), pts[3][2]), size.height - 1)
    IN  (min_x..max_x) \X (min_y..max_y)

\* the depth-tested write of depth z at a pixel whose stored depth is `stored`
Shade(stored, z, texture, tex_coords, light_intensity, w) ==
    IF DepthTest(z, stored)
    THEN Some([z |-> z,
               colour |-> FragmentColour(texture, tex_coords, light_intensity, w)])
    ELSE None

FragmentAt(stored, pts, texture, tex_coords, light_intensity, bc) ==
    IF ~IsSome(bc) THEN None
    ELSE Shade(stored, Interpolate(pts[1][3], pts[2][3], pts[3][3], Unwrap(bc)),
               texture, tex_coords, light_intensity, Unwrap(bc))

\* what one iteration of the loops does at pixel p = <<x, y>>: None, or
\* Some of the depth and colour it writes
Fragment(zb, size, pts, texture, tex_coords, light_intensity, p) ==
    FragmentAt(zb[p[1] + p[2] * size.width + 1], pts, texture, tex_coords,
               light_intensity, Covers(pts, p[1], p[2]))

\* buffer index (1-based) -> what the loops over `box` write there
Written(zb, size, pts, texture, tex_coords, light_intensity, box) ==
    LET frag(p) == Fragment(zb, size, pts, texture, tex_coords, light_intensity, p)
    IN  [i \in {p[1] + p[2] * size.width + 1 : p \in {q \in box : IsSome(frag(q))}} |->
            Unwrap(frag(<<(i - 1) % size.width, (i - 1) \div size.width>>))]

\* the canvas with the writes applied (put_pixel and the z_buffer store)
ApplyWrites(c, size, written) ==
    [img |-> Image(c.img.width, c.img.height, c.img.fill,
                   DOMAIN c.img.px \cup DOMAIN written,
                   [i \in DOMAIN c.img.px \cup DOMAIN written |->
                       IF i \in DOMAIN written THEN written[i].colour ELSE c.img.px[i]]),
     zb  |-> [i \in 1..(size.width * size.height) |->
                 IF i \in DOMAIN written THEN written[i].z ELSE c.zb[i]]]

\* draw_triangle on the canvas c = [img |-> image, zb |-> depth buffer].
\* Each pixel of the bounding box is visited once and touches only its own
\* entries, so the two loops are written as one map over the box.
draw_triangle(c, size, pts, texture, tex_coords, light_intensity) ==
    ApplyWrites(c, size,
                Written(c.zb, size, pts, texture, tex_coords, light_intensity,
                        BBox(size, pts)))

(***************************************************************************)
(* render().                                                               *)
(***************************************************************************)
\* every vertex of every mesh, in iteration order
RECURSIVE AllVertices(_)
AllVertices(meshes) ==
    IF meshes = <<>> THEN <<>>
    ELSE Head(meshes).vertices \o AllVertices(Tail(meshes))

\* the running minimum / maximum of coordinate k over the vertices
RECURSIVE FoldMin(_, _, _)
FoldMin(acc, vs, k) ==
    IF vs = <<>> THEN acc ELSE FoldMin(FMin(acc, Int2F(Head(vs)[k])), Tail(vs), k)

RECURSIVE FoldMax(_, _, _)
FoldMax(acc, vs, k) ==
    IF vs = <<>> THEN acc ELSE FoldMax(FMax(acc, Int2F(Head(vs)[k])), Tail(vs), k)

\* min_x, max_x, min_y, max_y over all vertices
Bounds(scene) ==
    LET vs == AllVertices(scene.meshes)
    IN  [min_x |-> FoldMin(F_INFINITY, vs, 1), max_x |-> FoldMax(F_NEG_INFINITY, vs, 1),
         min_y |-> FoldMin(F_INFINITY, vs, 2), max_y |-> FoldMax(F_NEG_INFINITY, vs, 2)]

\* scale, model centre and viewport centre for the bounds b
ViewportOf(size, margin, b) ==
    [scale |->
         FMin(FDiv(FMul(Int2F(size.width), FSub(Int2F(1), FMul(Int2F(2), margin))),
                   FSub(b.max_x, b.min_x)),
              FDiv(FMul(Int2F(size.height), FSub(Int2F(1), FMul(Int2F(2), margin))),
                   FSub(b.max_y, b.min_y))),
     center_x |-> FDiv(FAdd(b.min_x, b.max_x), Int2F(2)),
     center_y |-> FDiv(FAdd(b.min_y, b.max_y), Int2F(2)),
     viewport_center_x |-> FDiv(Int2F(size.width), Int2F(2)),
     viewport_center_y |-> FDiv(Int2F(size.height), Int2F(2))]

Viewport(size, margin, scene) == ViewportOf(size, margin, Bounds(scene))

\* the screen position of vertex v
Project(vp, v) ==
    << F2I32(FAdd(FMul(FSub(Int2F(v[1]), vp.center_x), vp.scale), vp.viewport_center_x)),
       F2I32(FAdd(FMul(FSub(Int2F(v[2]), vp.center_y), vp.scale), vp.viewport_center_y)) >>

\* the faces of a mesh that have exactly three indices
TriangleFaces(mesh) == SelectSeq(mesh.faces, LAMBDA face : Len(face) = 3)

\* the texture coordinate of one vertex of a mesh
VertexTexCoord(mesh, vertex_index) ==
    IF Len(mesh.texture_coords) >= 1 /\ IsSome(mesh.texture_coords[1]) THEN
        LET tex_coords == Unwrap(mesh.texture_coords[1])
        IN  IF vertex_index < Len(tex_coords) THEN tex_coords[vertex_index + 1]
            ELSE <<0, 0>>
    ELSE <<0, 0>>

\* one entry of mesh_draw_data
MeshDrawData(vp, mesh) ==
    LET faces == TriangleFaces(mesh)
    IN  [projected |-> [i \in 1..Len(mesh.vertices) |-> Project(vp, mesh.vertices[i])],
         faces |-> faces,
         world_coords |-> mesh.vertices,
         texture_coords |->
             [f \in 1..Len(faces) |->
                 [j \in 1..Len(faces[f]) |-> VertexTexCoord(mesh, faces[f][j])]],
         idx |-> mesh.material_index]

Cross(a, b) ==
    << a[2] * b[3] - a[3] * b[2], a[3] * b[1] - a[1] * b[3], a[1] * b[2] - a[2] * b[1] >>
Dot(a, b) == a[1] * b[1] + a[2] * b[2] + a[3] * b[3]
Sub3(a, b) == <<a[1] - b[1], a[2] - b[2], a[3] - b[3]>>

\* Faulty variant, for comparison: the two edges in the other order
FaceNormal_Swapped(world_coords, indices) ==
    LET edge1 == Sub3(world_coords[indices[3] + 1], world_coords[indices[1] + 1])
        edge2 == Sub3(world_coords[indices[2] + 1], world_coords[indices[1] + 1])
    IN  Cross(edge2, edge1)

\* the face normal before normalization
FaceNormal(world_coords, indices) ==
    LET edge1 == Sub3(world_coords[indices[3] + 1], world_coords[indices[1] + 1])
        edge2 == Sub3(world_coords[indices[2] + 1], world_coords[indices[1] + 1])
    IN  Cross(edge1, edge2)

\* normal.normalize().dot(&light), light being light_dir normalized
FaceIntensity(world_coords, indices, light_dir) ==
    LET normal == FaceNormal(world_coords, indices)
    IN  Intensity(Dot(normal, light_dir), Dot(normal, normal), Dot(light_dir, light_dir))

\* the three points handed to draw_triangle: projected x, y and world z
FacePts(d, indices) ==
    [j \in 1..3 |-> << d.projected[indices[j] + 1][1], d.projected[indices[j] + 1][2],
                       d.world_coords[indices[j] + 1][3] >>]

FaceTexCoords(d, face_idx) ==
    IF face_idx < Len(d.texture_coords) /\ Len(d.texture_coords[face_idx + 1]) = 3
    THEN Some(d.texture_coords[face_idx + 1])
    ELSE None

MeshTexture(textures, idx) ==
    IF idx < Len(textures) THEN textures[idx + 1] ELSE None

\* the loop over the faces of one mesh, from face face_idx on
RECURSIVE DrawFaces(_, _, _, _, _, _)
DrawFaces(c, size, d, texture, light_dir, face_idx) ==
    IF face_idx >= Len(d.faces) THEN c
    ELSE LET indices == d.faces[face_idx + 1]
             intensity == FaceIntensity(d.world_coords, indices, light_dir)
             drawn == IF IntensityPositive(intensity)
                      THEN draw_triangle(c, size, FacePts(d, indices), texture,
                                         FaceTexCoords(d, face_idx), intensity)
                      ELSE c
         IN  DrawFaces(drawn, size, d, texture, light_dir, face_idx + 1)

\* the loop over mesh_draw_data
RECURSIVE DrawMeshes(_, _, _, _, _)
DrawMeshes(c, size, data, textures, light_dir) ==
    IF data = <<>> THEN c
    ELSE LET d == Head(data)
         IN  DrawMeshes(DrawFaces(c, size, d, MeshTexture(textures, d.idx), light_dir, 0),
                        size, Tail(data), textures, light_dir)

\* Faulty variant, for comparison: the flip is left out
FinalFlip_Missing(img) == img

\* the vertical flip that ends render()
FinalFlip(img) == flip_vertical(img)

\* Faulty variant, for comparison: the image of the previous call is kept
StartCanvas_NoRefill(self) ==
    [img |-> self.img_buf,
     zb  |-> [i \in 1..(self.size.width * self.size.height) |-> F_NEG_INFINITY]]

\* the canvas render() starts from: the background and a fresh depth buffer
StartCanvas(self) ==
    [img |-> gen_bkg(self.img_buf),
     zb  |-> [i \in 1..(self.size.width * self.size.height) |-> F_NEG_INFINITY]]

\* mesh_draw_data
DrawData(self, vp) ==
    [m \in 1..Len(self.scene.meshes) |-> MeshDrawData(vp, self.scene.meshes[m])]

\* what render() returns from the canvas `done` left by the drawing loops
Rendered(self, done) ==
    [result |-> "ok",
     self |-> [self EXCEPT !.img_buf = FinalFlip(done.img)],
     zb |-> done.zb]

\* render(): the renderer afterwards (self) and the depth buffer the call
\* allocated, as it stands when the call returns (zb).  render() has no
\* failing path: it always returns Ok.
render(self) ==
    Rendered(self,
             DrawMeshes(StartCanvas(self), self.size,
                        DrawData(self, Viewport(self.size, self.margin, self.scene)),
                        self.textures, self.light_dir))

\* output(): the image buffer
output(self) == self.img_buf

(***************************************************************************)
(* The state machine: a builder is configured, built, and the renderer it  *)
(* yields is rendered.                                                     *)
(***************************************************************************)
Init ==
    /\ pc = "config"
    /\ \E p \in Paths : builder = ModelToImageBuilder_new(p)
    /\ last_with_size = None
    /\ importer_calls = 0
    /\ this = None
    /\ z_buffer = <<>>
    /\ renders = 0
    /\ call = None
    /\ ret = None

WithSize ==
    /\ pc = "config"
    /\ \E size \in SizeArgs :
           /\ builder' = with_size(builder, size)
           /\ last_with_size' = Some(size)
    /\ UNCHANGED <<pc, importer_calls, this, z_buffer, renders, call, ret>>

WithLightDirection ==
    /\ pc = "config"
    /\ \E light_dir \in LightArgs : builder' = with_light_direction(builder, light_dir)
    /\ UNCHANGED <<pc, last_with_size, importer_calls, this, z_buffer, renders, call, ret>>

WithMargin ==
    /\ pc = "config"
    /\ \E margin \in MarginArgs : builder' = with_margin(builder, margin)
    /\ UNCHANGED <<pc, last_with_size, importer_calls, this, z_buffer, renders, call, ret>>

\* build() consumes the builder
Build ==
    /\ pc = "config"
    /\ \E r \in {build(builder)} :
           /\ pc' = IF r.result = "ok" THEN "built"
                    ELSE IF r.result = "err" THEN "build_err" ELSE "build_panic"
           /\ importer_calls' = importer_calls + (IF r.imported THEN 1 ELSE 0)
           /\ this' = r.value
    /\ UNCHANGED <<builder, last_with_size, z_buffer, renders, call, ret>>

Render ==
    /\ pc \in {"built", "rendered"}
    /\ renders < MaxRenders
    /\ Unwrap(this).size.width <= MaxRenderDim
    /\ Unwrap(this).size.height <= MaxRenderDim
    /\ \E r \in {render(Unwrap(this))} :
           /\ pc' = IF r.result = "ok" THEN "rendered" ELSE "render_err"
           /\ this' = Some(r.self)
           /\ z_buffer' = r.zb
    /\ renders' = renders + 1
    /\ UNCHANGED <<builder, last_with_size, importer_calls, call, ret>>

Next == WithSize \/ WithLightDirection \/ WithMargin \/ Build \/ Render

Spec == Init /\ [][Next]_vars

(***************************************************************************)
(* The rasterizer functions called directly on bounded inputs.             *)
(***************************************************************************)
Grid == (0..GridMax) \X (0..GridMax)

\* corners for draw_triangle on a 10 x 10 canvas, one of them off the canvas
DrawPoints == {<<0, 0>>, <<4, 4>>, <<8, 8>>, <<8, 0>>, <<-2, 11>>}

\* the world z of the three corners
DrawDepths == {<<0, 0, 0>>, <<2, 3, 4>>, <<5, -1, 2>>}

\* textures and texture coordinates handed to draw_triangle
DrawTextures ==
    { [texture |-> None, tex_coords |-> None],
      [texture |-> Some(Checker), tex_coords |-> Some(<< <<0, 0>>, <<1, 0>>, <<0, 1>> >>)] }

\* light intensities: 1 and 4/sqrt(56)
DrawIntensities == {Intensity(1, 1, 1), Intensity(4, 56, 1)}

CanvasSize == [width |-> 10, height |-> 10]

\* the canvas when the drawing loops of render() start
FreshCanvas ==
    [img |-> gen_bkg(RgbImage_new(CanvasSize.width, CanvasSize.height)),
     zb  |-> [i \in 1..(CanvasSize.width * CanvasSize.height) |-> F_NEG_INFINITY]]

\* a fresh canvas, and one on which a face has been drawn
Canvases ==
    { FreshCanvas,
      draw_triangle(FreshCanvas, CanvasSize, << <<0, 0, 1>>, <<8, 0, 1>>, <<0, 8, 1>> >>,
                    None, None, Intensity(1, 1, 1)) }

RasterInit ==
    /\ pc = "idle"
    /\ builder = None
    /\ last_with_size = None
    /\ importer_calls = 0
    /\ this = None
    /\ z_buffer = <<>>
    /\ renders = 0
    /\ call = None
    /\ ret = None

CallBarycentric ==
    /\ pc = "idle"
    /\ \E a \in Grid, b \in Grid, c \in Grid, p \in Grid :
           /\ call' = Some([fn |-> "barycentric", a |-> a, b |-> b, c |-> c, p |-> p])
           /\ ret' = Some(barycentric(a, b, c, p))
    /\ pc' = "returned"
    /\ UNCHANGED <<builder, last_with_size, importer_calls, this, z_buffer, renders>>

CallDrawTriangle ==
    /\ pc = "idle"
    /\ \E c \in Canvases, p0 \in DrawPoints, p1 \in DrawPoints, p2 \in DrawPoints,
          z \in DrawDepths, t \in DrawTextures, i \in DrawIntensities :
           /\ call' = Some([fn |-> "draw_triangle", canvas |-> c,
                            pts |-> << <<p0[1], p0[2], z[1]>>, <<p1[1], p1[2], z[2]>>,
                                       <<p2[1], p2[2], z[3]>> >>,
                            texture |-> t.texture, tex_coords |-> t.tex_coords,
                            light_intensity |-> i])
           /\ ret' = Some(draw_triangle(c, CanvasSize,
                                        << <<p0[1], p0[2], z[1]>>, <<p1[1], p1[2], z[2]>>,
                                           <<p2[1], p2[2], z[3]>> >>,
                                        t.texture, t.tex_coords, i))
    /\ pc' = "returned"
    /\ UNCHANGED <<builder, last_with_size, importer_calls, this, z_buffer, renders>>

RasterNext == CallBarycentric \/ CallDrawTriangle

RasterSpec == RasterInit /\ [][RasterNext]_vars

(***************************************************************************)
(* Vocabulary of the claims.                                               *)
(***************************************************************************)
\* the triangles render() meets, by mesh m and face f (both 1-based), with
\* what it would hand to draw_triangle
Triangle(self, m, f) ==
    LET d == MeshDrawData(Viewport(self.size, self.margin, self.scene),
                          self.scene.meshes[m])
    IN  [pts |-> FacePts(d, d.faces[f]),
         texture |-> MeshTexture(self.textures, d.idx),
         tex_coords |-> FaceTexCoords(d, f - 1),
         intensity |-> FaceIntensity(d.world_coords, d.faces[f], self.light_dir)]

\* every triangular face of the scene, as <<m, f>>
AllFaces(self) ==
    UNION { {<<m, f>> : f \in 1..Len(TriangleFaces(self.scene.meshes[m]))} :
            m \in 1..Len(self.scene.meshes) }

\* the table of the triangles render() hands to draw_triangle or culls
Triangles(self) == [mf \in AllFaces(self) |-> Triangle(self, mf[1], mf[2])]

\* the faces of table T that survive the intensity cut
SurvivingFaces(T) == { mf \in DOMAIN T : IntensityPositive(T[mf].intensity) }

\* the surviving faces that cover pixel (x, y) of the drawing (before the flip)
FacesAt(T, x, y) == { mf \in SurvivingFaces(T) : IsSome(Covers(T[mf].pts, x, y)) }

\* the interpolated depth and the colour of face mf at pixel (x, y)
DepthAt(T, mf, x, y) ==
    Interpolate(T[mf].pts[1][3], T[mf].pts[2][3], T[mf].pts[3][3],
                Unwrap(Covers(T[mf].pts, x, y)))

ColourAt(T, mf, x, y) ==
    FragmentColour(T[mf].texture, T[mf].tex_coords, T[mf].intensity,
                   Unwrap(Covers(T[mf].pts, x, y)))

\* face a is drawn before face b
DrawnBefore(a, b) == a[1] < b[1] \/ (a[1] = b[1] /\ a[2] < b[2])

\* the pixel of the output buffer that shows drawing position (x, y)
OutputPixel(self, x, y) == get_pixel(output(self), x, self.size.height - 1 - y)

Columns(self) == 0..(self.size.width - 1)
Rows(self) == 0..(self.size.height - 1)

HasRendered == pc = "rendered" /\ IsSome(this)

(***************************************************************************)
(* C1.  Depth resolution is order-independent: at every pixel whose        *)
(* covering fragments have pairwise distinct depths, whatever the order in *)
(* which the faces were drawn, the pixel shows the colour of the fragment  *)
(* of largest z and the depth buffer holds that z.                         *)
(***************************************************************************)
C1_DepthOrderIndependent ==
    HasRendered =>
        LET self == Unwrap(this)
            T == Triangles(Unwrap(this))
        IN
        \A x \in Columns(self), y \in Rows(self) :
            LET fs == FacesAt(T, x, y) IN
            (/\ fs # {}
             /\ \A a \in fs, b \in fs : a # b => DepthAt(T, a, x, y) # DepthAt(T, b, x, y))
            => \E a \in fs :
                   /\ \A b \in fs : ~FGt(DepthAt(T, b, x, y), DepthAt(T, a, x, y))
                   /\ OutputPixel(self, x, y) = ColourAt(T, a, x, y)
                   /\ z_buffer[x + y * self.size.width + 1] = DepthAt(T, a, x, y)

\* a pixel covered by two fragments of different colour, the nearer drawn first
C1_Witness ==
    /\ HasRendered
    /\ LET T == Triangles(Unwrap(this)) IN
       \E x \in Columns(Unwrap(this)), y \in Rows(Unwrap(this)) :
           \E a \in FacesAt(T, x, y), b \in FacesAt(T, x, y) :
               /\ DrawnBefore(a, b)
               /\ FGt(DepthAt(T, a, x, y), DepthAt(T, b, x, y))
               /\ ColourAt(T, a, x, y) # ColourAt(T, b, x, y)
               /\ FacesAt(T, x, y) = {a, b}

(***************************************************************************)
(* C2.  After render(), output() is a buffer of exactly width x height     *)
(* pixels, and every position that no surviving face covers holds the      *)
(* background colour: untouched at drawing row y means background at       *)
(* output row height-1-y.                                                  *)
(***************************************************************************)
C2_BackgroundWhereUncovered ==
    HasRendered =>
        LET self == Unwrap(this) IN
        /\ output(self).width = self.size.width
        /\ output(self).height = self.size.height
        /\ <<self.size.width, self.size.height>> = builder.size
        /\ DOMAIN output(self).px \subseteq 1..(self.size.width * self.size.height)
        /\ LET T == Triangles(Unwrap(this)) IN
           \A x \in Columns(self), y \in Rows(self) :
               FacesAt(T, x, y) = {} => OutputPixel(self, x, y) = BkgColour

\* an uncovered position whose mirror position across the flip is covered
C2_Witness ==
    /\ HasRendered
    /\ LET T == Triangles(Unwrap(this)) IN
       \E x \in Columns(Unwrap(this)), y \in Rows(Unwrap(this)) :
           /\ FacesAt(T, x, y) = {}
           /\ FacesAt(T, x, Unwrap(this).size.height - 1 - y) # {}
           /\ OutputPixel(Unwrap(this), x, Unwrap(this).size.height - 1 - y) # BkgColour

(***************************************************************************)
(* C3.  For every margin < 0.5 the projection of render() puts every       *)
(* vertex inside [margin*W, (1-margin)*W] x [margin*H, (1-margin)*H], up   *)
(* to one pixel.                                                           *)
(***************************************************************************)
WithinMargin(v, margin, extent) ==
    /\ FGe(Int2F(v), FSub(FMul(margin, Int2F(extent)), Int2F(1)))
    /\ FGe(FAdd(FMul(FSub(Int2F(1), margin), Int2F(extent)), Int2F(1)), Int2F(v))

ProjectedInsideMargins(self) ==
    \A m \in 1..Len(self.scene.meshes) :
        \A i \in 1..Len(self.scene.meshes[m].vertices) :
            LET q == Project(Viewport(self.size, self.margin, self.scene),
                             self.scene.meshes[m].vertices[i])
            IN  /\ WithinMargin(q[1], self.margin, self.size.width)
                /\ WithinMargin(q[2], self.margin, self.size.height)

C3_ProjectionInsideMargins ==
    (HasRendered /\ FLt(Unwrap(this).margin, Fin(1, 2)))
        => ProjectedInsideMargins(Unwrap(this))

(***************************************************************************)
(* C4.  The unit triangle P0=(0,0,0), P1=(1,0,0), P2=(0,1,0): as stated,   *)
(* light (0,0,-1) gives intensity -1 (culled, nothing drawn) and light     *)
(* (0,0,1) gives intensity +1 (drawn, every inside pixel white).           *)
(***************************************************************************)
UnitTriScene == Scene(<<UnitTri>>)

IntensityIs(i, sign) == i.nn > 0 /\ i.ll > 0 /\ Sgn(i.dot) = sign /\ i.dot * i.dot = i.nn * i.ll

NothingDrawn(self) ==
    \A x \in Columns(self), y \in Rows(self) : OutputPixel(self, x, y) = BkgColour

InsideIsWhite(self) ==
    \A x \in Columns(self), y \in Rows(self) :
        IsSome(Covers(Triangle(self, 1, 1).pts, x, y))
            => OutputPixel(self, x, y) = Rgb(255, 255, 255)

C4_AsClaimed ==
    (HasRendered /\ Unwrap(this).scene = UnitTriScene) =>
        LET self == Unwrap(this) IN
        /\ self.light_dir = <<0, 0, -1>> =>
               IntensityIs(Triangle(self, 1, 1).intensity, -1) /\ NothingDrawn(self)
        /\ self.light_dir = <<0, 0, 1>> =>
               IntensityIs(Triangle(self, 1, 1).intensity, 1) /\ InsideIsWhite(self)

\* C4, amended: light (0,0,-1) gives intensity +1 (drawn, every inside pixel
\* white) and light (0,0,1) gives intensity -1 (culled, nothing drawn).
C4_EdgeOrderConvention ==
    (HasRendered /\ Unwrap(this).scene = UnitTriScene) =>
        LET self == Unwrap(this) IN
        /\ self.light_dir = <<0, 0, -1>> =>
               IntensityIs(Triangle(self, 1, 1).intensity, 1) /\ InsideIsWhite(self)
        /\ self.light_dir = <<0, 0, 1>> =>
               IntensityIs(Triangle(self, 1, 1).intensity, -1) /\ NothingDrawn(self)

\* the unit triangle rendered under light (0,0,-1), with a pixel inside it
C4_Witness ==
    /\ HasRendered
    /\ Unwrap(this).scene = UnitTriScene
    /\ Unwrap(this).light_dir = <<0, 0, -1>>
    /\ \E x \in Columns(Unwrap(this)), y \in Rows(Unwrap(this)) :
           /\ IsSome(Covers(Triangle(Unwrap(this), 1, 1).pts, x, y))
           /\ OutputPixel(Unwrap(this), x, y) = Rgb(255, 255, 255)

(***************************************************************************)
(* C5.  A model whose bounding box has zero width or zero height is        *)
(* refused: build() or render() returns an error.                          *)
(***************************************************************************)
DegenerateBounds(scene) ==
    \/ FSub(Bounds(scene).max_x, Bounds(scene).min_x) = Int2F(0)
    \/ FSub(Bounds(scene).max_y, Bounds(scene).min_y) = Int2F(0)

C5_DegenerateBoundsRefused ==
    (IsSome(this) /\ DegenerateBounds(Unwrap(this).scene)) => pc # "rendered"

(***************************************************************************)
(* C6.  A model path that does not exist makes build() return an error     *)
(* before the importer is called, and no renderer exists; a path that      *)
(* exists and that the importer fails on does the same after the call.     *)
(***************************************************************************)
C6_BuildErrors ==
    pc # "config" =>
        /\ ~builder.model_path.exists =>
               pc = "build_err" /\ importer_calls = 0 /\ this = None
        /\ (builder.model_path.exists /\ importer_calls > 0
                /\ ~IsSome(builder.model_path.parsed)) =>
               pc = "build_err" /\ this = None

(***************************************************************************)
(* C7.  The size is (256,256) while with_size has not been called and      *)
(* (max(w,10), max(h,10)) of the last with_size call otherwise, whatever   *)
(* other builder calls were made; so every renderer build() produces has   *)
(* width >= 10 and height >= 10.                                           *)
(***************************************************************************)
ExpectedSize(last) ==
    IF ~IsSome(last) THEN <<256, 256>>
    ELSE << IF Unwrap(last)[1] > 10 THEN Unwrap(last)[1] ELSE 10,
            IF Unwrap(last)[2] > 10 THEN Unwrap(last)[2] ELSE 10 >>

C7_SizeAtLeastTen ==
    /\ builder.size = ExpectedSize(last_with_size)
    /\ IsSome(this) =>
           /\ Unwrap(this).size.width >= 10
           /\ Unwrap(this).size.height >= 10
           /\ <<Unwrap(this).size.width, Unwrap(this).size.height>>
                  = ExpectedSize(last_with_size)
           /\ Unwrap(this).img_buf.width = Unwrap(this).size.width
           /\ Unwrap(this).img_buf.height = Unwrap(this).size.height

\* a renderer built after with_size was given a dimension below 10
C7_Witness ==
    /\ IsSome(this)
    /\ IsSome(last_with_size)
    /\ Unwrap(last_with_size)[2] < 10
    /\ Unwrap(this).size.height = 10

(***************************************************************************)
(* C8.  The margin render() uses satisfies 0 <= margin < 0.5 in every      *)
(* renderer that build() produced.                                         *)
(***************************************************************************)
C8_MarginInRange ==
    IsSome(this) =>
        FGe(Unwrap(this).margin, Int2F(0)) /\ FLt(Unwrap(this).margin, Fin(1, 2))

(***************************************************************************)
(* C9.  For a triangle A, B, C of non-zero signed area, barycentric        *)
(* returns (1,0,0) at P = A, (0,1,0) at P = B, (0,0,1) at P = C, and at    *)
(* every P three weights that sum to 1.                                    *)
(***************************************************************************)
SignedArea2(a, b, c) == (c[1] - a[1]) * (b[2] - a[2]) - (b[1] - a[1]) * (c[2] - a[2])

ReturnedFrom(fn) == pc = "returned" /\ Unwrap(call).fn = fn

C9_BarycentricAtVertices ==
    (ReturnedFrom("barycentric")
        /\ SignedArea2(Unwrap(call).a, Unwrap(call).b, Unwrap(call).c) # 0) =>
        LET k == Unwrap(call)
            r == Unwrap(ret)
        IN  /\ IsSome(r)
            /\ FAdd(FAdd(Unwrap(r)[1], Unwrap(r)[2]), Unwrap(r)[3]) = Int2F(1)
            /\ k.p = k.a => Unwrap(r) = <<Int2F(1), Int2F(0), Int2F(0)>>
            /\ k.p = k.b => Unwrap(r) = <<Int2F(0), Int2F(1), Int2F(0)>>
            /\ k.p = k.c => Unwrap(r) = <<Int2F(0), Int2F(0), Int2F(1)>>

\* barycentric has returned (0,1,0) for P = B of a triangle with area
C9_Witness ==
    /\ ReturnedFrom("barycentric")
    /\ SignedArea2(Unwrap(call).a, Unwrap(call).b, Unwrap(call).c) # 0
    /\ Unwrap(call).p = Unwrap(call).b
    /\ Unwrap(ret) = Some(<<Int2F(0), Int2F(1), Int2F(0)>>)

(***************************************************************************)
(* C10.  draw_triangle on three collinear projected points (two or three   *)
(* of them may coincide) leaves the image buffer and the depth buffer      *)
(* unchanged, whatever the z values, the texture and the intensity.        *)
(***************************************************************************)
Collinear(pts) ==
    SignedArea2(<<pts[1][1], pts[1][2]>>, <<pts[2][1], pts[2][2]>>,
                <<pts[3][1], pts[3][2]>>) = 0

C10_CollinearDrawsNothing ==
    (ReturnedFrom("draw_triangle") /\ Collinear(Unwrap(call).pts)) =>
        /\ Unwrap(ret).img = Unwrap(call).canvas.img
        /\ Unwrap(ret).zb = Unwrap(call).canvas.zb

\* three distinct collinear points on the canvas, nearer than what is stored
\* along them, textured: drawn, and nothing changed
C10_Witness ==
    /\ ReturnedFrom("draw_triangle")
    /\ Collinear(Unwrap(call).pts)
    /\ {<<Unwrap(call).pts[j][1], Unwrap(call).pts[j][2]>> : j \in 1..3}
           = {<<0, 0>>, <<4, 4>>, <<8, 8>>}
    /\ \A j \in 1..3 : Unwrap(call).pts[j][3] > 1
    /\ IsSome(Unwrap(call).texture)
    /\ Unwrap(call).canvas # FreshCanvas
    /\ Unwrap(ret) = Unwrap(call).canvas

(***************************************************************************)
(* C11.  render() carries no state across invocations: a render() call on  *)
(* a renderer that has already been rendered leaves the image buffer and   *)
(* the depth buffer of the call exactly as the previous call left them     *)
(* (so, by induction, as the first call left them: the background is       *)
(* refilled, the depth buffer starts again from negative infinity, the     *)
(* flip is applied once per call), and no render() call changes the scene, *)
(* the textures, the size, the margin or the light direction.              *)
(***************************************************************************)
RenderStep ==
    /\ pc \in {"built", "rendered"}
    /\ pc' = "rendered"
    /\ renders' = renders + 1

C11_RenderCarriesNoState ==
    [][RenderStep =>
          /\ Unwrap(this').scene = Unwrap(this).scene
          /\ Unwrap(this').textures = Unwrap(this).textures
          /\ Unwrap(this').size = Unwrap(this).size
          /\ Unwrap(this').margin = Unwrap(this).margin
          /\ Unwrap(this').light_dir = Unwrap(this).light_dir
          /\ renders >= 1 =>
                 /\ output(Unwrap(this')) = output(Unwrap(this))
                 /\ z_buffer' = z_buffer]_vars

\* a second render() has returned on an image that is not its own mirror
\* image: something was drawn, and flipping it once more would show
C11_Witness ==
    /\ HasRendered
    /\ renders >= 2
    /\ output(Unwrap(this)).px # EmptyPx
    /\ flip_vertical(output(Unwrap(this))) # output(Unwrap(this))
    /\ \E i \in DOMAIN z_buffer : z_buffer[i] # F_NEG_INFINITY

====
